---------------------------- MODULE Spec2Model ----------------------------
(***************************************************************************)
(* KaraokeKunKari: the expected-pitch timeline (core/pitchArrayBuilder.ts), *)
(* the frame scorer (core/scoring.ts: evaluateFrame, ScoreTracker) and the  *)
(* orchestrator (KaraokeApp) with its player and pitch detector.            *)
(*                                                                         *)
(* Number encoding.  The source computes on IEEE doubles; the model keeps   *)
(* exact fixed-point integers:                                              *)
(*   - times, durations and the resolution are whole ticks;                 *)
(*   - note pitches (NoteEvent.midi, timeline slots) are whole semitones;   *)
(*   - a detected pitch, a difference and the two match thresholds are      *)
(*     tenths of a semitone (PitchScale), so 60.3 is 603 and 0.5 is 5;      *)
(*   - clarity and velocity are hundredths (0.85 is 85);                    *)
(*   - a score is hundredths of a percent (100 % is 10000).                 *)
(* A nullable value (T | null) is <<>> for null and <<v>> for v.            *)
(***************************************************************************)
EXTENDS Integers, Sequences, FiniteSets, TLC

VARIABLES
    frames,           \* ScoreTracker.frames
    config,           \* ScoreTracker.config
    last,             \* the last call made on the tracker: its name and arguments
    playedAt,         \* per stored frame, the playback time addFrame was called with
    now,              \* the caller's playback clock (the currentTime it passes)
    notes,            \* KaraokeApp.notes / the notes given to buildExpectedPitchArray
    pitchConfig,      \* the PitchArrayConfig given to buildExpectedPitchArray
    expectedPitches,  \* KaraokeApp.expectedPitches / the timeline built
    app,              \* KaraokeApp.state and the pending asynchronous play() calls
    player,           \* MidiPlayer and Tone.Transport
    detector          \* MicrophonePitchDetector

vars == <<frames, config, last, playedAt, now, notes, pitchConfig,
          expectedPitches, app, player, detector>>

trackerVars == <<frames, config, last, playedAt, now>>
timelineVars == <<notes, pitchConfig, expectedPitches>>
appVars == <<app, player, detector>>

-----------------------------------------------------------------------------
(* Bounds of the model *)

MaxFrames == 2
MaxTime == 2
MaxNotes == 2
MaxAudio == 1

-----------------------------------------------------------------------------
(* Nullable values and arithmetic helpers *)

None == <<>>
Some(v) == <<v>>
IsNone(o) == o = <<>>
Get(o) == o[1]

Abs(x) == IF x < 0 THEN -x ELSE x
MinOf(S) == CHOOSE x \in S : \A y \in S : x <= y
MaxOf(S) == CHOOSE x \in S : \A y \in S : x >= y
\* Math.floor(a / b) and Math.ceil(a / b) for b > 0
FloorDiv(a, b) == a \div b
CeilDiv_Floor(a, b) == a \div b
CeilDiv(a, b) == -((-a) \div b)
\* Math.round(p / q) for q > 0: the nearest integer, halves towards +infinity
RoundDiv(p, q) == (2 * p + q) \div (2 * q)

PitchScale == 10
NaN == -1

-----------------------------------------------------------------------------
(* core/pitchArrayBuilder.ts *)

Strategies == {"FIRST", "VELOCITY", "FREQUENCY"}

\* Array.prototype.reduce without an initial value: the accumulator starts at
\* the first element and better(current, acc) decides whether current replaces it
RECURSIVE ReduceBest(_, _, _)
ReduceBest(cands, k, byVelocity) ==
    IF k = 1 THEN cands[1]
    ELSE LET acc == ReduceBest(cands, k - 1, byVelocity)
             current == cands[k]
         IN IF byVelocity
            THEN (IF current.velocity > acc.velocity THEN current ELSE acc)
            ELSE (IF current.time < acc.time THEN current ELSE acc)

RECURSIVE SumOver(_, _, _)
\* candidates.reduce((sum, c) => sum + ..., 0)
SumOver(cands, k, weighted) ==
    IF k = 0 THEN 0
    ELSE SumOver(cands, k - 1, weighted)
         + (IF weighted THEN cands[k].midi * cands[k].velocity ELSE cands[k].velocity)

RECURSIVE ReduceLatestTie(_, _)
ReduceLatestTie(cands, k) ==
    IF k = 1 THEN cands[1]
    ELSE LET acc == ReduceLatestTie(cands, k - 1)
         IN IF cands[k].time <= acc.time THEN cands[k] ELSE acc

resolvePitch_VelocityAsFirst(candidates, strategy) ==
    IF Len(candidates) = 1 THEN candidates[1].midi
    ELSE ReduceBest(candidates, Len(candidates), FALSE).midi
resolvePitch_FirstTakesLatestTie(candidates, strategy) ==
    IF Len(candidates) = 1 THEN candidates[1].midi
    ELSE ReduceLatestTie(candidates, Len(candidates)).midi
resolvePitch_FirstListed(candidates, strategy) ==
    candidates[1].midi
resolvePitch_FrequencyUnweighted(candidates, strategy) ==
    IF Len(candidates) = 1 THEN candidates[1].midi
    ELSE CASE strategy = "FIRST" ->
                ReduceBest(candidates, Len(candidates), FALSE).midi
           [] strategy = "FREQUENCY" ->
                LET totalWeight == SumOver(candidates, Len(candidates), FALSE)
                IN  IF totalWeight = 0 THEN NaN
                    ELSE RoundDiv(SumOver([k \in 1..Len(candidates) |->
                                             [midi |-> 1, velocity |-> candidates[k].midi]],
                                          Len(candidates), FALSE),
                                  Len(candidates))
           [] OTHER ->
                ReduceBest(candidates, Len(candidates), TRUE).midi
resolvePitch(candidates, strategy) ==
    IF Len(candidates) = 1 THEN candidates[1].midi
    ELSE CASE strategy = "FIRST" ->
                ReduceBest(candidates, Len(candidates), FALSE).midi
           [] strategy = "FREQUENCY" ->
                LET totalWeight == SumOver(candidates, Len(candidates), FALSE)
                    weightedSum == SumOver(candidates, Len(candidates), TRUE)
                IN  \* 0 / 0 is NaN and Math.round(NaN) is NaN
                    IF totalWeight = 0 THEN NaN
                    ELSE RoundDiv(weightedSum, totalWeight)
           [] OTHER ->
                ReduceBest(candidates, Len(candidates), TRUE).midi

\* the slots [i0, i1) a note is registered in (0-based, as in the source)
SlotFrom_Ceil(note, start, resolution) ==
    LET i == CeilDiv(note.time - start, resolution)
    IN IF i < 0 THEN 0 ELSE i
SlotFrom(note, start, resolution) ==
    LET i == FloorDiv(note.time - start, resolution)
    IN IF i < 0 THEN 0 ELSE i
SlotTo_Floor(note, start, resolution, len) ==
    LET i == FloorDiv(note.time + note.duration - start, resolution)
    IN IF i > len THEN len ELSE i
SlotTo(note, start, resolution, len) ==
    LET i == CeilDiv(note.time + note.duration - start, resolution)
    IN IF i > len THEN len ELSE i

\* pitchSlots.get(i): the candidates of slot i in the order the notes are read
slotCandidates(ns, i, start, resolution, len) ==
    LET covers(n) == SlotFrom(n, start, resolution) <= i
                     /\ i < SlotTo(n, start, resolution, len)
        cand(n) == [midi |-> n.midi, velocity |-> n.velocity, time |-> n.time]
        picked == SelectSeq(ns, covers)
    IN [k \in 1..Len(picked) |-> cand(picked[k])]

\* new Array(len) throws a RangeError unless len is an integer from 0 up:
\* a resolution of 0 makes len Infinity (or NaN for notes without extent), a
\* negative one makes it ceil of a quotient that is 0 or negative
buildThrows(ns, cfg) ==
    /\ Len(ns) > 0
    /\ LET start == MinOf({ns[k].time : k \in 1..Len(ns)})
           end == MaxOf({ns[k].time + ns[k].duration : k \in 1..Len(ns)})
       IN \/ cfg.resolution = 0
          \/ cfg.resolution < 0 /\ end - start >= -cfg.resolution

\* the value returned when nothing is thrown
buildExpectedPitchArray(ns, cfg) ==
    IF Len(ns) = 0
    THEN [start |-> 0, step |-> cfg.resolution, pitches |-> <<>>]
    ELSE IF cfg.resolution < 0
    THEN \* len is -0: no slot is visited and the array is empty
         [start |-> MinOf({ns[k].time : k \in 1..Len(ns)}),
          step |-> cfg.resolution, pitches |-> <<>>]
    ELSE LET start == MinOf({ns[k].time : k \in 1..Len(ns)})
             end == MaxOf({ns[k].time + ns[k].duration : k \in 1..Len(ns)})
             len == CeilDiv(end - start, cfg.resolution)
             slot(i) == slotCandidates(ns, i, start, cfg.resolution, len)
         IN [start |-> start,
             step |-> cfg.resolution,
             pitches |-> [j \in 1..len |->
                            IF Len(slot(j - 1)) = 0 THEN None
                            ELSE Some(resolvePitch(slot(j - 1), cfg.strategy))]]

getExpectedMidiAt_PastEndIsLast(time, expected) ==
    IF time < expected.start THEN None
    ELSE LET idx == FloorDiv(time - expected.start, expected.step)
         IN IF idx < 0 \/ idx > Len(expected.pitches) THEN None
            ELSE IF idx = Len(expected.pitches)
            THEN (IF idx = 0 THEN Some(0) ELSE expected.pitches[idx])
            ELSE expected.pitches[idx + 1]
getExpectedMidiAt_BeforeStartIsFirst(time, expected) ==
    IF time < expected.start
    THEN (IF Len(expected.pitches) = 0 THEN None ELSE expected.pitches[1])
    ELSE LET idx == FloorDiv(time - expected.start, expected.step)
         IN IF idx < 0 \/ idx >= Len(expected.pitches) THEN None
            ELSE expected.pitches[idx + 1]
getExpectedMidiAt(time, expected) ==
    IF time < expected.start THEN None
    ELSE LET idx == FloorDiv(time - expected.start, expected.step)
         IN IF idx < 0 \/ idx >= Len(expected.pitches) THEN None
            ELSE expected.pitches[idx + 1]

\* the slots startIdx <= i < endIdx (0-based), in order
getExpectedMidiRange_EndFloor(startTime, endTime, expected) ==
    LET startIdx == MaxOf({0, FloorDiv(startTime - expected.start, expected.step)})
        endIdx == MinOf({Len(expected.pitches),
                         FloorDiv(endTime - expected.start, expected.step)})
    IN [k \in 1..(endIdx - startIdx) |-> expected.pitches[startIdx + k]]
getExpectedMidiRange(startTime, endTime, expected) ==
    LET startIdx == MaxOf({0, FloorDiv(startTime - expected.start, expected.step)})
        endIdx == MinOf({Len(expected.pitches),
                         CeilDiv(endTime - expected.start, expected.step)})
    IN [k \in 1..(endIdx - startIdx) |-> expected.pitches[startIdx + k]]

-----------------------------------------------------------------------------
(* core/scoring.ts *)

\* 0.5 and 1.0 semitones in tenths, 0.85 in hundredths
DEFAULT_SCORING_CONFIG ==
    [perfectThreshold |-> 5, acceptableThreshold |-> 10, clarityThreshold |-> 85]

\* { ...DEFAULT_SCORING_CONFIG, ...partial }: partial is a function on a
\* subset of the three keys
MergeConfig(partial) ==
    [k \in DOMAIN DEFAULT_SCORING_CONFIG |->
        IF k \in DOMAIN partial THEN partial[k] ELSE DEFAULT_SCORING_CONFIG[k]]

\* the guard of evaluateFrame's second return: no detection, no detected
\* pitch, or a clarity under the floor
unreliable_ClarityAtFloor(detected, cfg) ==
    IsNone(detected) \/ IsNone(Get(detected).midi)
        \/ Get(detected).clarity <= cfg.clarityThreshold
unreliable(detected, cfg) ==
    IsNone(detected) \/ IsNone(Get(detected).midi)
        \/ Get(detected).clarity < cfg.clarityThreshold

\* the match of a judged frame from its difference
classify_StrictThresholds(diff, cfg) ==
    IF diff < cfg.perfectThreshold THEN "PERFECT"
    ELSE IF diff < cfg.acceptableThreshold THEN "ACCEPTABLE"
    ELSE "MISS"
classify(diff, cfg) ==
    IF diff <= cfg.perfectThreshold THEN "PERFECT"
    ELSE IF diff <= cfg.acceptableThreshold THEN "ACCEPTABLE"
    ELSE "MISS"

\* detected is None (null) or Some(DetectedPitch); expected is None or
\* Some(semitone); the frame's time is the detection's timestamp, or 0
evaluateFrame(detected, expected, cfg) ==
    LET time == IF IsNone(detected) THEN 0 ELSE Get(detected).timestamp
        detectedMidi == IF IsNone(detected) THEN None ELSE Get(detected).midi
    IN IF IsNone(expected)
       THEN [time |-> time, expected |-> None, detected |-> detectedMidi,
             diff |-> None, match |-> "NO_DATA"]
       ELSE IF unreliable(detected, cfg)
       THEN [time |-> time, expected |-> expected, detected |-> detectedMidi,
             diff |-> None, match |-> "NO_DATA"]
       ELSE LET diff == Abs(Get(Get(detected).midi) - PitchScale * Get(expected))
            IN [time |-> time, expected |-> expected,
                detected |-> Get(detected).midi, diff |-> Some(diff),
                match |-> classify(diff, cfg)]

\* the frame ScoreTracker.addFrame evaluates, pushes and returns
addFrameResult(detected, expected, currentTime, cfg) ==
    evaluateFrame(detected, getExpectedMidiAt(currentTime, expected), cfg)

CountMatch(fs, m) == Cardinality({i \in 1..Len(fs) : fs[i].match = m})

\* scoredFrames = perfectFrames + acceptableFrames + missFrames
scoredFramesOf_AllFrames(fs) == Len(fs)
scoredFramesOf(fs) ==
    CountMatch(fs, "PERFECT") + CountMatch(fs, "ACCEPTABLE") + CountMatch(fs, "MISS")

\* matchedFrames = perfectFrames + acceptableFrames
matchedFramesOf_PerfectOnly(fs) == CountMatch(fs, "PERFECT")
matchedFramesOf(fs) == CountMatch(fs, "PERFECT") + CountMatch(fs, "ACCEPTABLE")

\* (matchedFrames / scoredFrames) * 100, then Math.round(score * 100) / 100
scoreOf_OverMisses(matchedFrames, scoredFrames) ==
    IF scoredFrames > matchedFrames
    THEN RoundDiv(matchedFrames * 10000, scoredFrames - matchedFrames)
    ELSE 0
scoreOf(matchedFrames, scoredFrames) ==
    IF scoredFrames > 0 THEN RoundDiv(matchedFrames * 10000, scoredFrames) ELSE 0

getStats_DropsNoData(fs) ==
    [totalFrames |-> Len(fs),
     perfectFrames |-> CountMatch(fs, "PERFECT"),
     acceptableFrames |-> CountMatch(fs, "ACCEPTABLE"),
     missFrames |-> CountMatch(fs, "MISS"),
     noDataFrames |-> 0,
     score |-> scoreOf(matchedFramesOf(fs), scoredFramesOf(fs))]
getStats(fs) ==
    [totalFrames |-> Len(fs),
     perfectFrames |-> CountMatch(fs, "PERFECT"),
     acceptableFrames |-> CountMatch(fs, "ACCEPTABLE"),
     missFrames |-> CountMatch(fs, "MISS"),
     noDataFrames |-> CountMatch(fs, "NO_DATA"),
     score |-> scoreOf(matchedFramesOf(fs), scoredFramesOf(fs))]

\* getStats(): the time statistics, as fractions num / den with den > 0.
\* frameStep is (last.time - first.time) / (length - 1), or 0.02 for fewer
\* than two frames
frameStepOf(fs) ==
    IF Len(fs) > 1
    THEN [num |-> fs[Len(fs)].time - fs[1].time, den |-> Len(fs) - 1]
    ELSE [num |-> 1, den |-> 50]
matchedTimeOf(fs) ==
    [num |-> matchedFramesOf(fs) * frameStepOf(fs).num, den |-> frameStepOf(fs).den]
totalTimeOf(fs) ==
    [num |-> scoredFramesOf(fs) * frameStepOf(fs).num, den |-> frameStepOf(fs).den]

\* this.frames.filter(f => f.time < time)
resetFromResult_Inclusive(fs, time) == SelectSeq(fs, LAMBDA f : f.time <= time)
resetFromResult(fs, time) == SelectSeq(fs, LAMBDA f : f.time < time)

RECURSIVE KeptIndices(_, _)
\* the indices resetFrom keeps, in order: the same filter, on positions
KeptIndices(fs, time) ==
    IF fs = <<>> THEN <<>>
    ELSE LET front == KeptIndices(SubSeq(fs, 1, Len(fs) - 1), time)
         IN IF fs[Len(fs)].time < time THEN Append(front, Len(fs)) ELSE front

-----------------------------------------------------------------------------
(* Inputs of the scorer *)

Times == 0..MaxTime

\* one note of pitch 60 over [1, 2) at resolution 1: the timeline starts at 1
\* and has one slot, so a lookup at 0 (before it) or at 2 (past it) is absent
SongNotes == <<[time |-> 1, duration |-> 1, midi |-> 60, velocity |-> 80]>>
SongConfig == [resolution |-> 1, strategy |-> "VELOCITY"]
Song == buildExpectedPitchArray(SongNotes, SongConfig)

Detection(midi, clarity, timestamp) ==
    Some([midi |-> midi, clarity |-> clarity, timestamp |-> timestamp])

\* detections fed to a tracker with a history: absent, unclear (the detector
\* reports no pitch), in tune, a semitone off, two semitones off
Detections ==
    {None} \cup
    {Detection(m[1], m[2], ts) :
        m \in {<<None, 50>>, <<Some(603), 90>>, <<Some(610), 85>>, <<Some(620), 90>>},
        ts \in Times}

\* detections fed to a tracker scoring one frame: every pitch difference on
\* and next to a threshold, every clarity on and next to a floor
EvalDetections ==
    {None} \cup
    {Detection(m, c, 0) :
        m \in {None, Some(595), Some(603), Some(605), Some(606), Some(608),
               Some(610), Some(611), Some(620)},
        c \in {50, 84, 85, 89, 90}}

\* new ScoreTracker(config): the defaults, or a partial configuration merged
\* over them
Configs ==
    {DEFAULT_SCORING_CONFIG, MergeConfig([perfectThreshold |-> 3])}
EvalConfigs ==
    Configs \cup
    {MergeConfig([perfectThreshold |-> 3, acceptableThreshold |-> 8,
                  clarityThreshold |-> 90]),
     MergeConfig([acceptableThreshold |-> 5])}

\* serialized bundles given to import: frames in any order, with or without
\* a configuration
ImportFrame(time, match) ==
    [time |-> time, expected |-> Some(60),
     detected |-> IF match = "NO_DATA" THEN None ELSE Some(600),
     diff |-> IF match = "NO_DATA" THEN None
              ELSE IF match = "PERFECT" THEN Some(0)
              ELSE IF match = "ACCEPTABLE" THEN Some(10) ELSE Some(20),
     match |-> match]
ImportBundles ==
    {[frames |-> <<ImportFrame(1, "PERFECT"), ImportFrame(0, "MISS"),
                   ImportFrame(2, "PERFECT")>>,
      config |-> None],
     [frames |-> <<ImportFrame(0, "ACCEPTABLE"), ImportFrame(1, "NO_DATA"),
                   ImportFrame(1, "MISS")>>,
      config |-> Some([perfectThreshold |-> 3])],
     [frames |-> <<>>, config |-> Some(DEFAULT_SCORING_CONFIG)]}

\* the caller's two clocks: the playback position (Tone.Transport.seconds)
\* and the detector's AudioContext.currentTime
Clocks(play, audio) == [play |-> play, audio |-> audio]

NoCall == [op |-> "new", detected |-> None, time |-> 0, dropped |-> 0]

-----------------------------------------------------------------------------
(* ScoreTracker *)

\* addFrame(detected, expected, currentTime)
AddFrame(detected, currentTime) ==
    /\ frames' = Append(frames,
                        addFrameResult(detected, Get(expectedPitches), currentTime, config))
    /\ last' = [op |-> "addFrame", detected |-> detected, time |-> currentTime,
                dropped |-> 0]
    /\ UNCHANGED config

\* reset()
Reset_KeepsLatest ==
    /\ frames' = IF frames = <<>> THEN <<>> ELSE <<frames[Len(frames)]>>
    /\ last' = [op |-> "reset", detected |-> None, time |-> 0,
                dropped |-> Len(frames)]
    /\ UNCHANGED config
Reset ==
    /\ frames' = <<>>
    /\ last' = [op |-> "reset", detected |-> None, time |-> 0,
                dropped |-> Len(frames)]
    /\ UNCHANGED config

\* resetFrom(time)
ResetFrom(time) ==
    /\ frames' = resetFromResult(frames, time)
    /\ last' = [op |-> "resetFrom", detected |-> None, time |-> time,
                dropped |-> Len(frames) - Len(resetFromResult(frames, time))]
    /\ UNCHANGED config

\* import(data)
Import(data) ==
    /\ frames' = data.frames
    /\ config' = IF IsNone(data.config) THEN config
                 ELSE MergeConfig(Get(data.config))
    /\ last' = [op |-> "import", detected |-> None, time |-> 0,
                dropped |-> Len(frames)]

-----------------------------------------------------------------------------
(* A tracker with a history, driven by arbitrary calls *)

IdleTimeline ==
    /\ notes = SongNotes
    /\ pitchConfig = SongConfig
    /\ expectedPitches = Some(Song)
IdleApp ==
    /\ app = None
    /\ player = None
    /\ detector = None

\* new ScoreTracker(cfg)
NewTracker(cfg) ==
    /\ frames = <<>>
    /\ config = cfg
    /\ last = NoCall

InitTracker ==
    /\ \E cfg \in Configs : NewTracker(cfg)
    /\ playedAt = <<>>
    /\ now = Clocks(0, 0)
    /\ IdleTimeline
    /\ IdleApp

TrackerAddFrame ==
    /\ Len(frames) < MaxFrames
    /\ \E d \in Detections, t \in Times : AddFrame(d, t)
    /\ UNCHANGED <<playedAt, now, timelineVars, appVars>>

TrackerResetFrom ==
    /\ \E t \in 0..(MaxTime + 1) : ResetFrom(t)
    /\ UNCHANGED <<playedAt, now, timelineVars, appVars>>

TrackerReset ==
    /\ Reset
    /\ UNCHANGED <<playedAt, now, timelineVars, appVars>>

TrackerImport ==
    /\ \E data \in ImportBundles : Import(data)
    /\ UNCHANGED <<playedAt, now, timelineVars, appVars>>

NextTracker ==
    \/ TrackerAddFrame
    \/ TrackerResetFrom
    \/ TrackerReset
    \/ TrackerImport

SpecTracker == InitTracker /\ [][NextTracker]_vars

-----------------------------------------------------------------------------
(* A tracker scoring one frame at a time, over every kind of detection *)

MaxEvalFrames == 1

EvalAddFrame ==
    /\ Len(frames) < MaxEvalFrames
    /\ \E d \in EvalDetections, t \in Times : AddFrame(d, t)
    /\ UNCHANGED <<playedAt, now, timelineVars, appVars>>

NextEval ==
    \/ EvalAddFrame
    \/ TrackerReset

InitEval ==
    /\ \E cfg \in EvalConfigs : NewTracker(cfg)
    /\ playedAt = <<>>
    /\ now = Clocks(0, 0)
    /\ IdleTimeline
    /\ IdleApp

SpecEval == InitEval /\ [][NextEval]_vars

-----------------------------------------------------------------------------
(* Claims on the scoring of one frame (SpecEval) *)

LastFrame == frames[Len(frames)]
LastExpected == getExpectedMidiAt(last.time, Get(expectedPitches))
\* the frame of the last addFrame call cannot be judged
Unjudgable ==
    \/ IsNone(LastExpected)
    \/ IsNone(last.detected)
    \/ IsNone(Get(last.detected).midi)
    \/ Get(last.detected).clarity < config.clarityThreshold

\* C4: after any addFrame call a frame has been appended, and it is NO_DATA
\* with an absent difference exactly when the expected pitch at currentTime
\* is absent, or the detection is absent, or its pitch is absent, or its
\* clarity is under the clarity floor (0.85 by default); otherwise it has a
\* difference and another classification.
C4_NoDataExactlyWhenUnjudgable ==
    last.op = "addFrame" =>
        /\ Len(frames) >= 1
        /\ Unjudgable => (LastFrame.match = "NO_DATA" /\ IsNone(LastFrame.diff))
        /\ ~Unjudgable => (LastFrame.match # "NO_DATA" /\ ~IsNone(LastFrame.diff))
        /\ (config = DEFAULT_SCORING_CONFIG /\ ~IsNone(LastExpected)
            /\ ~IsNone(last.detected) /\ ~IsNone(Get(last.detected).midi))
           => (LastFrame.match = "NO_DATA" <=> Get(last.detected).clarity < 85)

\* a pitch 0.3 semitones off the expected 60 with clarity 0.5 is NO_DATA,
\* and the same pitch with clarity exactly on the default floor is judged
C4_Witness ==
    /\ last.op = "addFrame"
    /\ config = DEFAULT_SCORING_CONFIG
    /\ LastFrame.expected = Some(60)
    /\ LastFrame.detected = Some(603)
    /\ \/ Get(last.detected).clarity = 50 /\ LastFrame.match = "NO_DATA"
       \/ Get(last.detected).clarity = 85 /\ LastFrame.match = "PERFECT"

\* C5: a judgable frame has diff = |detected pitch - expected pitch| and is
\* PERFECT when diff <= perfectThreshold, ACCEPTABLE when perfectThreshold <
\* diff <= acceptableThreshold and MISS otherwise (defaults 0.5 and 1.0); a
\* diff equal to a threshold falls in the better class.
C5_ClassifiedByThresholds ==
    (last.op = "addFrame" /\ ~Unjudgable) =>
        LET diff == Abs(Get(Get(last.detected).midi) - PitchScale * Get(LastExpected))
            perfect == IF config = DEFAULT_SCORING_CONFIG THEN 5
                       ELSE config.perfectThreshold
            acceptable == IF config = DEFAULT_SCORING_CONFIG THEN 10
                          ELSE config.acceptableThreshold
        IN /\ LastFrame.diff = Some(diff)
           /\ LastFrame.expected = LastExpected
           /\ LastFrame.detected = Get(last.detected).midi
           /\ diff <= perfect => LastFrame.match = "PERFECT"
           /\ (perfect < diff /\ diff <= acceptable) => LastFrame.match = "ACCEPTABLE"
           /\ (perfect < diff /\ acceptable < diff) => LastFrame.match = "MISS"

\* a difference exactly on the default acceptable threshold is ACCEPTABLE,
\* one exactly on the default perfect threshold is PERFECT
C5_Witness ==
    /\ last.op = "addFrame"
    /\ config = DEFAULT_SCORING_CONFIG
    /\ \/ LastFrame.diff = Some(10) /\ LastFrame.match = "ACCEPTABLE"
       \/ LastFrame.diff = Some(5) /\ LastFrame.match = "PERFECT"

-----------------------------------------------------------------------------
(* Claims on the statistics and the history (SpecTracker) *)

Perfects == CountMatch(frames, "PERFECT")
Acceptables == CountMatch(frames, "ACCEPTABLE")
Misses == CountMatch(frames, "MISS")
Score == getStats(frames).score

\* C6: in every state reached by addFrame, resetFrom, reset and import the
\* score lies in [0, 100].
C6_ScoreBound == 0 <= Score /\ Score <= 10000

\* a history with matched and missed frames: a score strictly inside
C6_Witness ==
    /\ last.op \in {"addFrame", "resetFrom", "import"}
    /\ Perfects + Acceptables > 0
    /\ Misses > 0
    /\ 0 < Score /\ Score < 10000

\* C7: the score is 0 when the history has no scored frame or only MISS
\* scored frames, and 100 when it has a scored frame and every scored frame
\* is PERFECT or ACCEPTABLE.
C7_ScoreExtremes ==
    /\ (Perfects + Acceptables = 0) => Score = 0
    /\ (Perfects + Acceptables > 0 /\ Misses = 0) => Score = 10000

\* the 100 case with an ACCEPTABLE frame next to a NO_DATA one
C7_Witness ==
    /\ Acceptables > 0
    /\ Misses = 0
    /\ CountMatch(frames, "NO_DATA") > 0
    /\ Score = 10000

\* the score of a history: 100 * (P + A) / (P + A + M) to the nearest
\* hundredth, 0 without scored frames
IsRoundedRatio(score, matched, scored) ==
    IF scored = 0 THEN score = 0
    ELSE /\ 2 * (score * scored - 10000 * matched) <= scored
         /\ 2 * (10000 * matched - score * scored) < scored

\* C8: NO_DATA frames are excluded from the score: it is 100 * (P + A) /
\* (P + A + M) rounded to 2 decimals, 0 when the denominator is 0, and an
\* addFrame call whose frame is NO_DATA leaves the score and the PERFECT,
\* ACCEPTABLE and MISS counts unchanged.
C8_NoDataExcluded ==
    [][ /\ IsRoundedRatio(Score', Perfects' + Acceptables',
                          Perfects' + Acceptables' + Misses')
        /\ (last'.op = "addFrame" /\ frames'[Len(frames')].match = "NO_DATA")
           => /\ Score' = Score
              /\ Perfects' = Perfects
              /\ Acceptables' = Acceptables
              /\ Misses' = Misses ]_vars

\* a NO_DATA frame added after a matched frame: the score stays 100 (it
\* would be 50 with the frame in the denominator)
C8_Witness ==
    /\ last.op = "addFrame"
    /\ Len(frames) = 2
    /\ LastFrame.match = "NO_DATA"
    /\ frames[1].match \in {"PERFECT", "ACCEPTABLE"}
    /\ Score = 10000

\* the indices of the frames before the cutoff, and the k-th of them
Before(fs, time) == {i \in 1..Len(fs) : fs[i].time < time}
KthBefore(fs, time, k) ==
    CHOOSE i \in Before(fs, time) :
        Cardinality({j \in Before(fs, time) : j <= i}) = k

\* C9: resetFrom(t) leaves exactly the frames with time < t, unchanged and
\* in their original order, and leaves the configuration unchanged.
C9_ResetFromKeepsEarlier ==
    [][ last'.op = "resetFrom" =>
          /\ Len(frames') = Cardinality(Before(frames, last'.time))
          /\ \A k \in 1..Len(frames') :
                frames'[k] = frames[KthBefore(frames, last'.time, k)]
          /\ config' = config ]_vars

\* a reset that dropped a frame and kept two, the kept ones out of time
\* order, the later of them just under the cutoff
C9_Witness ==
    /\ last.op = "resetFrom"
    /\ last.dropped > 0
    /\ Len(frames) = 2
    /\ frames[1].time > frames[2].time
    /\ frames[1].time = last.time - 1

ZeroStats ==
    [totalFrames |-> 0, perfectFrames |-> 0, acceptableFrames |-> 0,
     missFrames |-> 0, noDataFrames |-> 0, score |-> 0]

\* C11: reset() drops all history whatever the previous state: right after
\* it getFrames() is empty, getStats() reports 0 for every frame count and
\* score 0, and the configuration is the one before the call.
C11_ResetDropsAll ==
    [][last'.op = "reset"
         => (frames' = <<>> /\ getStats(frames') = ZeroStats /\ config' = config)]_vars

\* reset() has just dropped a history of two frames of a tracker whose
\* configuration is not the default one
C11_Witness ==
    /\ last.op = "reset"
    /\ last.dropped >= 2
    /\ config # DEFAULT_SCORING_CONFIG
    /\ frames = <<>>

-----------------------------------------------------------------------------
(* A tracker fed by a caller that follows the playback clock: every frame is
   added at the current playback position, with the detection the detector
   produced at the current AudioContext time; a seek moves the playback
   position and truncates the history at the same value *)

\* what the detector hands to its callback at AudioContext time audio
\* (timestamp: this.audioContext.currentTime), and the absent detection the
\* tracker's interface also accepts
ClockDetections(audio) ==
    {None, Detection(Some(603), 90, audio), Detection(Some(620), 90, audio)}

SeekAddFrame ==
    /\ Len(frames) < MaxFrames
    /\ \E d \in ClockDetections(now.audio) : AddFrame(d, now.play)
    /\ playedAt' = Append(playedAt, now.play)
    /\ UNCHANGED <<now, timelineVars, appVars>>

\* playback advances: both clocks move on
SeekAdvance ==
    /\ now.play < MaxTime
    /\ now.audio < MaxAudio
    /\ now' = Clocks(now.play + 1, now.audio + 1)
    /\ UNCHANGED <<frames, config, last, playedAt, timelineVars, appVars>>

\* the AudioContext clock runs while playback has not started or is paused
SeekAudioOnly ==
    /\ now.audio < MaxAudio
    /\ now' = Clocks(now.play, now.audio + 1)
    /\ UNCHANGED <<frames, config, last, playedAt, timelineVars, appVars>>

\* seek(time): the position and the cutoff are the same value
SeekTo ==
    /\ \E t \in Times :
          /\ ResetFrom(t)
          /\ now' = Clocks(t, now.audio)
          /\ playedAt' = [k \in 1..Len(KeptIndices(frames, t)) |->
                            playedAt[KeptIndices(frames, t)[k]]]
    /\ UNCHANGED <<timelineVars, appVars>>

\* stop(): back to the beginning with an empty history
SeekStop ==
    /\ Reset
    /\ now' = Clocks(0, now.audio)
    /\ playedAt' = <<>>
    /\ UNCHANGED <<timelineVars, appVars>>

NextSeek ==
    \/ SeekAddFrame
    \/ SeekAdvance
    \/ SeekAudioOnly
    \/ SeekTo
    \/ SeekStop

SpecSeek == InitTracker /\ [][NextSeek]_vars

\* C1: resetFrom(t) keeps exactly the frames that were added at a playback
\* time < t (none added at a playback time >= t survives, none added
\* before t is lost), so that re-adding the same inputs from t on
\* reproduces the frame counts.
C1_SeekIdempotence ==
    [][ last'.op = "resetFrom" =>
          playedAt' = SelectSeq(playedAt, LAMBDA p : p < last'.time) ]_vars

\* C3: when addFrame is called with non-decreasing playback times, the
\* times of the stored frames are non-decreasing, whether the detections
\* are present or absent and across resetFrom and reset.
C3_HistoryOrdered ==
    \A i \in 1..Len(frames) : \A j \in i..Len(frames) :
        frames[i].time <= frames[j].time

-----------------------------------------------------------------------------
(* The timeline builder applied to every small note list *)

\* (midi, velocity) of the notes given to the builder: two equal velocities,
\* a smaller one and a silent one
Voices == {<<60, 50>>, <<64, 90>>, <<67, 90>>, <<62, 0>>}
Durations == {1, 2}
NoteEvents ==
    {[time |-> t, duration |-> d, midi |-> v[1], velocity |-> v[2]] :
        t \in Times, d \in Durations, v \in Voices}
NoteLists == UNION {[1..n -> NoteEvents] : n \in 0..MaxNotes}
\* a resolution of one tick (every note on the slot grid) or two ticks
PitchConfigs == [resolution : {1, 2}, strategy : Strategies]

InitBuild ==
    /\ notes \in NoteLists
    /\ pitchConfig \in PitchConfigs
    /\ expectedPitches = None
    /\ \E cfg \in {DEFAULT_SCORING_CONFIG} : NewTracker(cfg)
    /\ playedAt = <<>>
    /\ now = Clocks(0, 0)
    /\ IdleApp

\* expectedPitches = buildExpectedPitchArray(notes, config)
Build ==
    /\ IsNone(expectedPitches)
    /\ IF buildThrows(notes, pitchConfig)
       THEN UNCHANGED expectedPitches
       ELSE expectedPitches' = Some(buildExpectedPitchArray(notes, pitchConfig))
    /\ UNCHANGED <<notes, pitchConfig, trackerVars, appVars>>

NextBuild ==
    \/ Build

SpecBuild == InitBuild /\ [][NextBuild]_vars

Built == Get(expectedPitches)
NoteEnd(n) == n.time + n.duration
\* the times of the tick grid inside note n
TicksOf(n) == n.time..(NoteEnd(n) - 1)
\* no two notes sound at the same time
PairwiseDisjoint(ns) ==
    \A i \in 1..Len(ns) : \A j \in 1..Len(ns) :
        i # j => (NoteEnd(ns[i]) <= ns[j].time \/ NoteEnd(ns[j]) <= ns[i].time)
\* the slots note n overlaps: floor((time - start) / resolution) up to
\* ceil((time + duration - start) / resolution), exclusive
SlotsOf(n, ns, resolution) ==
    LET start == MinOf({ns[k].time : k \in 1..Len(ns)})
    IN {i \in 0..(MaxTime + 2) :
          /\ i * resolution + start < NoteEnd(n)
          /\ (i + 1) * resolution + start > n.time}
\* no slot is overlapped by two notes
SlotsDisjoint(ns, resolution) ==
    \A i \in 1..Len(ns) : \A j \in 1..Len(ns) :
        i # j => SlotsOf(ns[i], ns, resolution) \cap SlotsOf(ns[j], ns, resolution) = {}
\* every lookup inside a note returns that note's pitch
ReadsEveryNote ==
    \A k \in 1..Len(notes) : \A t \in TicksOf(notes[k]) :
        getExpectedMidiAt(t, Built) = Some(notes[k].midi)

\* a note-on velocity is positive (the FREQUENCY weights then never sum to 0)
Audible(ns) == \A k \in 1..Len(ns) : ns[k].velocity > 0

\* C2 as claimed: for notes whose intervals are pairwise disjoint, under
\* FIRST, VELOCITY and FREQUENCY, the lookup at every t inside a note is
\* the pitch of that note, also when two notes share a quantization slot
\* (stated for notes of positive velocity).
C2_Quantization ==
    (~IsNone(expectedPitches) /\ PairwiseDisjoint(notes) /\ Audible(notes))
        => ReadsEveryNote

\* C2 as amended: for notes no two of which overlap the same quantization
\* slot, under FIRST, VELOCITY and FREQUENCY, the lookup at every t inside
\* a note is the pitch of that note.
C2_QuantizationOnDisjointSlots ==
    (~IsNone(expectedPitches) /\ SlotsDisjoint(notes, pitchConfig.resolution))
        => ReadsEveryNote

\* two notes of different pitch apart from each other, quantized at two
\* ticks, the second one starting and ending inside slots
C2_Witness ==
    /\ ~IsNone(expectedPitches)
    /\ pitchConfig.resolution = 2
    /\ Len(notes) = 2
    /\ SlotsDisjoint(notes, 2)
    /\ notes[1].midi # notes[2].midi
    /\ notes[1].time = 0 /\ notes[1].duration = 1
    /\ notes[2].time = 2 /\ notes[2].duration = 1

-----------------------------------------------------------------------------
(* core/midiParser.ts *)

RECURSIVE Flatten(_)
\* for (const track of midi.tracks) for (const note of track.notes) push
Flatten(tracks) ==
    IF tracks = <<>> THEN <<>>
    ELSE Flatten(SubSeq(tracks, 1, Len(tracks) - 1)) \o tracks[Len(tracks)]

RECURSIVE SortByTime(_)
\* notes.sort((a, b) => a.time - b.time): stable, equal times keep their order
SortByTime(ns) ==
    IF ns = <<>> THEN <<>>
    ELSE LET sorted == SortByTime(SubSeq(ns, 1, Len(ns) - 1))
             n == ns[Len(ns)]
             k == Cardinality({i \in 1..Len(sorted) : sorted[i].time <= n.time})
         IN SubSeq(sorted, 1, k) \o <<n>> \o SubSeq(sorted, k + 1, Len(sorted))

\* a file is the sequence of its tracks' notes; no trackIndex is given
parseMidiFile(file) == SortByTime(Flatten(file))

\* the files a user loads: one melody note, two tracks (the second starting
\* first), and a file without notes
MidiFiles ==
    {<<SongNotes>>,
     << <<[time |-> 1, duration |-> 1, midi |-> 67, velocity |-> 50]>>,
        <<[time |-> 0, duration |-> 2, midi |-> 64, velocity |-> 80]>> >>,
     << <<>> >>}

-----------------------------------------------------------------------------
(* audio/midiPlayer.ts: MidiPlayer over Tone.Transport; Transport.seconds is
   now.play.  loop is the state of timeUpdateInterval: "none" (null),
   "scheduled" (an animation frame is pending) or "stale" (an id is kept but
   no frame is pending) *)

NewPlayer ==
    [isInitialized |-> FALSE, isPaused |-> FALSE, duration |-> 0, notes |-> <<>>,
     transport |-> "stopped", onTimeUpdate |-> FALSE, loop |-> "none"]

\* loadNotes(notes), the player being initialized
playerLoadNotes(p, ns) ==
    [p EXCEPT !.notes = ns,
              !.duration = IF Len(ns) = 0 THEN 0
                           ELSE MaxOf({ns[k].time + ns[k].duration : k \in 1..Len(ns)})]

\* play(), the player being initialized and Tone's context running:
\* Transport.start(), then startTimeUpdateLoop()
playerPlay(p) ==
    [p EXCEPT !.transport = "started", !.isPaused = FALSE,
              !.loop = IF @ = "none" THEN "scheduled" ELSE @]

\* pause(): Transport.pause() pauses a started transport only
playerPause(p) ==
    IF ~p.isInitialized THEN p
    ELSE [p EXCEPT !.transport = IF @ = "started" THEN "paused" ELSE @,
                   !.isPaused = TRUE, !.loop = "none"]

\* stop(); Transport.seconds becomes playerStopSeconds
playerStop(p) ==
    IF ~p.isInitialized THEN p
    ELSE [p EXCEPT !.transport = "stopped", !.isPaused = FALSE, !.loop = "none"]
playerStopSeconds_KeepsPosition(p, seconds) == seconds
playerStopSeconds(p, seconds) == IF ~p.isInitialized THEN seconds ELSE 0

\* seek(time): Transport.seconds becomes the time clamped to [0, duration]
playerSeekSeconds(p, seconds, time) ==
    IF ~p.isInitialized THEN seconds
    ELSE MaxOf({0, MinOf({time, p.duration})})
\* seek(time) on a started transport whose player is marked paused restarts it
playerSeek(p) ==
    IF p.isInitialized /\ p.transport = "started" /\ p.isPaused
    THEN [p EXCEPT !.transport = "started"]
    ELSE p

playerIsPlaying(p) == p.isInitialized /\ p.transport = "started" /\ ~p.isPaused

-----------------------------------------------------------------------------
(* audio/pitchDetector.ts: frame is the state of animationFrameId *)

NewDetector ==
    [audioContext |-> FALSE, ready |-> FALSE, isRunning |-> FALSE,
     callback |-> FALSE, frame |-> "none"]

\* stop()
detectorStop_KeepsRunning(d) == d
detectorStop(d) == [d EXCEPT !.isRunning = FALSE, !.frame = "none"]

\* start(callback) on an initialized detector: the first detectPitch() call
\* is throttled (no time has elapsed) and requests the next animation frame
detectorStart(d) ==
    IF d.isRunning THEN d
    ELSE [d EXCEPT !.isRunning = TRUE, !.callback = TRUE, !.frame = "scheduled"]

\* what detectPitch hands to the callback: a pitch when the clarity reaches
\* the detector's threshold, no pitch otherwise
DetectorOutputs(audio) ==
    {Detection(Some(603), 90, audio), Detection(None, 50, audio)}

-----------------------------------------------------------------------------
(* KaraokeApp (no visualizer attached).  pending holds the play() calls that
   are suspended at an await: "player" after midiPlayer.play(), "resume"
   after pitchDetector.resumeAudioContext().  call names the step taken last
   when it was loadMidi, seek or stop, and is "other" after any other. *)

MaxPending == 1

\* frames scored in one session of the application
MaxAppFrames == 1

NewApp ==
    [isPlaying |-> FALSE, isPaused |-> FALSE, currentTime |-> 0, duration |-> 0,
     score |-> getStats(<<>>), microphoneEnabled |-> FALSE,
     audioInitialized |-> FALSE, currentDetectedPitch |-> None,
     pending |-> <<>>, call |-> "new"]

InitApp ==
    /\ app = NewApp
    /\ player = NewPlayer
    /\ detector = NewDetector
    /\ NewTracker(DEFAULT_SCORING_CONFIG)
    /\ playedAt = <<>>
    /\ now = Clocks(0, 0)
    /\ notes = <<>>
    /\ pitchConfig = SongConfig
    /\ expectedPitches = None

\* initialize(): both collaborators initialize (each returns at once when it
\* already is)
AppInitialize ==
    /\ player' = [player EXCEPT !.isInitialized = TRUE]
    /\ detector' = [detector EXCEPT !.audioContext = TRUE, !.ready = TRUE]
    /\ app' = [app EXCEPT !.audioInitialized = TRUE, !.microphoneEnabled = TRUE,
                          !.call = "other"]
    /\ UNCHANGED <<trackerVars, timelineVars>>

\* loadMidiFromFile / loadMidiFromUrl -> loadMidi(midiData, config)
AppLoadMidi ==
    \E file \in MidiFiles :
        LET parsed == parseMidiFile(file)
            loaded == playerLoadNotes(player, parsed)
        IN /\ notes' = parsed
           /\ IF Len(parsed) = 0
              THEN \* throw new Error('No notes found in MIDI file')
                   /\ app' = [app EXCEPT !.call = "loadMidi:failed"]
                   /\ UNCHANGED <<expectedPitches, player>>
              ELSE IF ~player.isInitialized
              THEN \* loadNotes throws: MIDI player not initialized
                   /\ expectedPitches' = Some(buildExpectedPitchArray(parsed, pitchConfig))
                   /\ app' = [app EXCEPT !.call = "loadMidi:failed"]
                   /\ UNCHANGED player
              ELSE /\ expectedPitches' = Some(buildExpectedPitchArray(parsed, pitchConfig))
                   /\ player' = loaded
                   /\ app' = [app EXCEPT !.duration = loaded.duration,
                                         !.currentTime = 0, !.call = "loadMidi"]
           /\ UNCHANGED <<trackerVars, pitchConfig, detector>>

\* play() up to its first await: the guards, then midiPlayer.play()
playCalled(a, p) ==
    IF a.audioInitialized /\ ~IsNone(expectedPitches) /\ p.isInitialized
    THEN [app |-> [a EXCEPT !.pending = Append(@, "player")], player |-> playerPlay(p)]
    ELSE [app |-> a, player |-> p]

AppPlay ==
    /\ Len(app.pending) < MaxPending
    /\ app' = [playCalled(app, player).app EXCEPT !.call = "other"]
    /\ player' = playCalled(app, player).player
    /\ UNCHANGED <<trackerVars, timelineVars, detector>>

\* play() resumed after await midiPlayer.play(): the time update callback is
\* set; with the microphone enabled it awaits resumeAudioContext(), else it
\* completes
AppPlayAfterPlayer ==
    /\ app.pending # <<>>
    /\ app.pending[1] = "player"
    /\ player' = [player EXCEPT !.onTimeUpdate = TRUE]
    /\ app' = IF app.microphoneEnabled
              THEN [app EXCEPT !.pending = <<"resume">> \o Tail(@), !.call = "other"]
              ELSE [app EXCEPT !.pending = Tail(@), !.isPlaying = TRUE,
                               !.isPaused = FALSE, !.call = "other"]
    /\ UNCHANGED <<trackerVars, timelineVars, detector>>

\* play() resumed after await resumeAudioContext(): pitchDetector.start
\* (which throws on a detector that is not ready), then the state update
AppPlayAfterResume ==
    /\ app.pending # <<>>
    /\ app.pending[1] = "resume"
    /\ IF detector.ready
       THEN /\ detector' = detectorStart(detector)
            /\ app' = [app EXCEPT !.pending = Tail(@), !.isPlaying = TRUE,
                                  !.isPaused = FALSE, !.call = "other"]
       ELSE /\ app' = [app EXCEPT !.pending = Tail(@), !.call = "other"]
            /\ UNCHANGED detector
    /\ UNCHANGED <<trackerVars, timelineVars, player>>

\* pause()
paused(a) == [a EXCEPT !.isPlaying = FALSE, !.isPaused = TRUE]

AppPause ==
    /\ player' = playerPause(player)
    /\ detector' = detectorStop(detector)
    /\ app' = [paused(app) EXCEPT !.call = "other"]
    /\ UNCHANGED <<trackerVars, timelineVars>>

\* stop()
AppStop ==
    /\ player' = playerStop(player)
    /\ now' = Clocks(playerStopSeconds(player, now.play), now.audio)
    /\ detector' = detectorStop(detector)
    /\ Reset
    /\ app' = [app EXCEPT !.currentDetectedPitch = None, !.isPlaying = FALSE,
                          !.isPaused = FALSE, !.currentTime = 0,
                          !.score = getStats(<<>>), !.call = "stop"]
    /\ UNCHANGED <<playedAt, timelineVars>>

\* seek(time)
\* before the start, inside the song, past its end
SeekTimes == {-1, 1, MaxTime + 1}

AppSeek_NoResume ==
    /\ \E time \in SeekTimes :
        LET wasPlaying == app.isPlaying
            a1 == IF wasPlaying THEN paused(app) ELSE app
            p1 == IF wasPlaying THEN playerPause(player) ELSE player
            p2 == playerSeek(p1)
            a2 == [a1 EXCEPT !.currentTime = time,
                             !.score = getStats(resetFromResult(frames, time))]
        IN /\ detector' = IF wasPlaying THEN detectorStop(detector) ELSE detector
           /\ now' = Clocks(playerSeekSeconds(p1, now.play, time), now.audio)
           /\ ResetFrom(time)
           /\ app' = [a2 EXCEPT !.call = "seek"]
           /\ player' = p2
    /\ UNCHANGED <<playedAt, timelineVars>>
AppSeek ==
    /\ app.isPlaying => Len(app.pending) < MaxPending
    /\ \E time \in SeekTimes :
        LET wasPlaying == app.isPlaying
            a1 == IF wasPlaying THEN paused(app) ELSE app
            p1 == IF wasPlaying THEN playerPause(player) ELSE player
            p2 == playerSeek(p1)
            a2 == [a1 EXCEPT !.currentTime = time,
                             !.score = getStats(resetFromResult(frames, time))]
        IN /\ detector' = IF wasPlaying THEN detectorStop(detector) ELSE detector
           /\ now' = Clocks(playerSeekSeconds(p1, now.play, time), now.audio)
           /\ ResetFrom(time)
           /\ app' = [(IF wasPlaying THEN playCalled(a2, p2).app ELSE a2)
                        EXCEPT !.call = "seek"]
           /\ player' = IF wasPlaying THEN playCalled(a2, p2).player ELSE p2
    /\ UNCHANGED <<playedAt, timelineVars>>

\* setMicrophoneEnabled(enabled)
AppSetMicrophoneEnabled ==
    /\ \E enabled \in BOOLEAN :
        IF enabled /\ ~app.microphoneEnabled
        THEN \* pitchDetector.initialize() returns at once with an AudioContext
             /\ detector' = [detector EXCEPT !.audioContext = TRUE, !.ready = TRUE]
             /\ app' = [app EXCEPT !.microphoneEnabled = TRUE, !.call = "other"]
        ELSE IF ~enabled /\ app.microphoneEnabled
        THEN /\ detector' = detectorStop(detector)
             /\ app' = [app EXCEPT !.microphoneEnabled = FALSE, !.call = "other"]
        ELSE /\ app' = [app EXCEPT !.call = "other"]
             /\ UNCHANGED detector
    /\ UNCHANGED <<trackerVars, timelineVars, player>>

\* the animation frame of MidiPlayer.startTimeUpdateLoop: updateTime()
AppTimeUpdate ==
    /\ player.loop = "scheduled"
    /\ LET fire == player.onTimeUpdate /\ playerIsPlaying(player)
           atEnd == fire /\ now.play >= player.duration /\ player.duration > 0
       IN /\ app' = IF fire
                    THEN [app EXCEPT !.currentTime = now.play,
                                     !.score = getStats(frames),
                                     !.call = "other"]
                    ELSE app
          /\ player' = IF atEnd THEN playerStop(player)
                       ELSE IF playerIsPlaying(player) THEN player
                       ELSE [player EXCEPT !.loop = "stale"]
          /\ now' = IF atEnd THEN Clocks(playerStopSeconds(player, now.play), now.audio)
                    ELSE now
    /\ UNCHANGED <<frames, config, last, playedAt, timelineVars, detector>>

\* the animation frame of MicrophonePitchDetector.detectPitch, a detection
\* being due: the pitch callback given by play() scores a frame
AppDetect ==
    /\ detector.frame = "scheduled"
    /\ detector.isRunning
    /\ detector.callback
    /\ Len(frames) < MaxAppFrames
    /\ \E pitch \in DetectorOutputs(now.audio) :
        /\ app' = [app EXCEPT !.currentDetectedPitch = pitch, !.call = "other"]
        /\ IF IsNone(expectedPitches)
           THEN UNCHANGED <<frames, config, last>>
           ELSE AddFrame(pitch, app.currentTime)
    /\ UNCHANGED <<playedAt, now, timelineVars, player, detector>>

\* the transport runs: both clocks advance
AppAdvance ==
    /\ player.transport = "started"
    /\ now.play < MaxTime
    /\ now.audio < MaxAudio
    /\ now' = Clocks(now.play + 1, now.audio + 1)
    /\ UNCHANGED <<frames, config, last, playedAt, timelineVars, appVars>>

\* the AudioContext clock runs on while the transport does not
AppAudioOnly ==
    /\ player.transport # "started"
    /\ now.audio < MaxAudio
    /\ now' = Clocks(now.play, now.audio + 1)
    /\ UNCHANGED <<frames, config, last, playedAt, timelineVars, appVars>>

NextApp ==
    \/ AppInitialize
    \/ AppLoadMidi
    \/ AppPlay
    \/ AppPlayAfterPlayer
    \/ AppPlayAfterResume
    \/ AppPause
    \/ AppStop
    \/ AppSeek
    \/ AppSetMicrophoneEnabled
    \/ AppTimeUpdate
    \/ AppDetect
    \/ AppAdvance
    \/ AppAudioOnly

SpecApp == InitApp /\ [][NextApp]_vars

\* C10: after a MIDI file is loaded successfully the scorer history is
\* empty: no frame scored against the previous score is counted.
C10_LoadClearsHistory ==
    app.call = "loadMidi" => frames = <<>>

\* C12: after seek(t) on a loaded player, for any t (also t < 0 and
\* t > duration), the transport position, state.currentTime and the cutoff
\* given to resetFrom are the same time.
C12_SeekMovesClockAndHistoryTogether ==
    (app.call = "seek" /\ player.isInitialized /\ player.duration > 0)
        => /\ last.op = "resetFrom"
           /\ last.time = app.currentTime
           /\ now.play = app.currentTime

-----------------------------------------------------------------------------
(* KaraokeApp.seek statement by statement.  app.seek is the seek() call in
   progress: its argument, the wasPlaying it read and the statement it is
   at.  No handler and no promise continuation runs while a call is in
   progress; the animation frame of the pitch detector is not held back, so
   that what keeps frames out of a seek is the order of its statements. *)

NoSeek == None
Seeking(time, wasPlaying, at) ==
    Some([time |-> time, wasPlaying |-> wasPlaying, at |-> at])
SeekAt(at) == ~IsNone(app.seek) /\ Get(app.seek).at = at

InitSeekSteps ==
    /\ app = [seek |-> NoSeek] @@ NewApp
    /\ player = NewPlayer
    /\ detector = NewDetector
    /\ \E cfg \in {DEFAULT_SCORING_CONFIG} : NewTracker(cfg)
    /\ playedAt = <<>>
    /\ now = Clocks(0, 0)
    /\ notes = <<>>
    /\ pitchConfig = SongConfig
    /\ expectedPitches = None

\* const wasPlaying = this.state.isPlaying; if (wasPlaying) this.pause()
AppSeekBegin ==
    /\ IsNone(app.seek)
    /\ app.isPlaying => Len(app.pending) < MaxPending
    /\ \E time \in SeekTimes :
        LET wasPlaying == app.isPlaying
        IN /\ app' = [(IF wasPlaying THEN paused(app) ELSE app)
                        EXCEPT !.seek = Seeking(time, wasPlaying, "seek"),
                               !.call = "other"]
           /\ player' = IF wasPlaying THEN playerPause(player) ELSE player
           /\ detector' = IF wasPlaying THEN detectorStop(detector) ELSE detector
    /\ UNCHANGED <<trackerVars, timelineVars>>

\* this.midiPlayer.seek(time); this.state.currentTime = time
AppSeekMove ==
    /\ SeekAt("seek")
    /\ LET s == Get(app.seek)
       IN /\ player' = playerSeek(player)
          /\ now' = Clocks(playerSeekSeconds(player, now.play, s.time), now.audio)
          /\ app' = [app EXCEPT !.currentTime = s.time,
                                !.seek = Seeking(s.time, s.wasPlaying, "resetFrom")]
    /\ UNCHANGED <<frames, config, last, playedAt, timelineVars, detector>>

\* this.scoreTracker.resetFrom(time); this.updateScore()
AppSeekResetFrom ==
    /\ SeekAt("resetFrom")
    /\ LET s == Get(app.seek)
       IN /\ ResetFrom(s.time)
          /\ app' = [app EXCEPT !.score = getStats(resetFromResult(frames, s.time)),
                                !.seek = Seeking(s.time, s.wasPlaying, "resume")]
    /\ UNCHANGED <<playedAt, now, timelineVars, player, detector>>

\* if (wasPlaying) this.play(): play() runs up to its first await
AppSeekResume ==
    /\ SeekAt("resume")
    /\ LET s == Get(app.seek)
           a == [app EXCEPT !.seek = NoSeek, !.call = "seek"]
       IN /\ app' = IF s.wasPlaying THEN playCalled(a, player).app ELSE a
          /\ player' = IF s.wasPlaying THEN playCalled(a, player).player ELSE player
    /\ UNCHANGED <<trackerVars, timelineVars, detector>>

StepsInitialize == IsNone(app.seek) /\ ~app.audioInitialized /\ AppInitialize
StepsLoadMidi == IsNone(app.seek) /\ IsNone(expectedPitches) /\ AppLoadMidi
StepsPlay == IsNone(app.seek) /\ AppPlay
StepsPlayAfterPlayer == IsNone(app.seek) /\ AppPlayAfterPlayer
StepsPlayAfterResume == IsNone(app.seek) /\ AppPlayAfterResume
StepsPause == IsNone(app.seek) /\ AppPause
StepsTimeUpdate == IsNone(app.seek) /\ AppTimeUpdate
StepsDetect == AppDetect
StepsAdvance == AppAdvance
StepsAudioOnly == AppAudioOnly

NextSeekSteps ==
    \/ StepsInitialize
    \/ StepsLoadMidi
    \/ StepsPlay
    \/ StepsPlayAfterPlayer
    \/ StepsPlayAfterResume
    \/ StepsPause
    \/ StepsTimeUpdate
    \/ StepsDetect
    \/ StepsAdvance
    \/ StepsAudioOnly
    \/ AppSeekBegin
    \/ AppSeekMove
    \/ AppSeekResetFrom
    \/ AppSeekResume

SpecSeekSteps == InitSeekSteps /\ [][NextSeekSteps]_vars

\* a seek() that found the app playing has paused and has not returned yet
InSeekWhilePlaying == ~IsNone(app.seek) /\ Get(app.seek).wasPlaying

\* C13: in a seek() called while playing, pitch intake is stopped before
\* resetFrom runs and is started again only after it: from the pause to
\* the return of seek() the detector is not running, has no frame
\* scheduled, and the history changes by resetFrom only (no addFrame).
C13_SeekStopsIntakeAroundResetFrom ==
    [][InSeekWhilePlaying
         => /\ ~detector.isRunning
            /\ detector.frame = "none"
            /\ \/ frames' = frames
               \/ (SeekAt("resetFrom")
                   /\ frames' = resetFromResult(frames, Get(app.seek).time))]_vars

\* resetFrom has just dropped a frame inside a seek() that found the app
\* playing with the detector running; the detector is stopped and play()
\* has not been called again yet
C13_Witness ==
    /\ SeekAt("resume")
    /\ Get(app.seek).wasPlaying
    /\ last.op = "resetFrom"
    /\ last.dropped > 0
    /\ detector.callback
    /\ ~detector.isRunning

-----------------------------------------------------------------------------
(* Claims on the built timeline (SpecBuild) *)

NoteTimes == {notes[k].time : k \in 1..Len(notes)}
NoteEnds == {NoteEnd(notes[k]) : k \in 1..Len(notes)}
\* n = ceil(p / q) for q > 0, without division
IsCeilOf(n, p, q) == n * q >= p /\ (n - 1) * q < p

\* C14: for non-empty notes and a positive resolution the timeline has
\* start = min(note.time), step = resolution and exactly
\* ceil((max(note.time + note.duration) - start) / resolution) slots.
C14_TimelineShape ==
    (~IsNone(expectedPitches) /\ notes # <<>> /\ pitchConfig.resolution > 0)
        => /\ Built.start = MinOf(NoteTimes)
           /\ Built.step = pitchConfig.resolution
           /\ IsCeilOf(Len(Built.pitches), MaxOf(NoteEnds) - MinOf(NoteTimes),
                       pitchConfig.resolution)

\* two notes given later-first, from tick 1 to tick 4, at two ticks a slot:
\* three ticks make two slots
C14_Witness ==
    /\ ~IsNone(expectedPitches)
    /\ pitchConfig.resolution = 2
    /\ Len(notes) = 2
    /\ notes[1].time = 2 /\ notes[1].duration = 2
    /\ notes[2].time = 1 /\ notes[2].duration = 1
    /\ Built.start = 1
    /\ Len(Built.pitches) = 2

\* the notes overlapping slot i (0-based) of the built timeline:
\* floor((time - start) / step) <= i < ceil((time + duration - start) / step)
Covers(n, i) ==
    /\ n.time - Built.start < (i + 1) * Built.step
    /\ i * Built.step < NoteEnd(n) - Built.start
\* their candidates, in input order
CandidatesOf(i) ==
    LET picked == SelectSeq(notes, LAMBDA n : Covers(n, i))
    IN [k \in 1..Len(picked) |->
          [midi |-> picked[k].midi, velocity |-> picked[k].velocity,
           time |-> picked[k].time]]
Slots == 0..(Len(Built.pitches) - 1)
SlotValue(i) == Built.pitches[i + 1]
SharedSlots == {i \in Slots : Len(CandidatesOf(i)) >= 2}

\* C15: slot i is present exactly when some note overlaps it, a slot no
\* note overlaps is absent, and a present slot holds the one pitch resolved
\* from the candidates of that slot only.
C15_SlotCoverage ==
    ~IsNone(expectedPitches)
        => \A i \in Slots :
              /\ IsNone(SlotValue(i)) <=> Len(CandidatesOf(i)) = 0
              /\ ~IsNone(SlotValue(i))
                    => Get(SlotValue(i))
                         = resolvePitch(CandidatesOf(i), pitchConfig.strategy)

\* two notes of different pitch at two ticks a slot, the second starting
\* inside slot 0 and reaching into slot 1: slot 0 has both candidates and
\* slot 1 the second one alone
C15_Witness ==
    /\ ~IsNone(expectedPitches)
    /\ pitchConfig.resolution = 2
    /\ pitchConfig.strategy = "VELOCITY"
    /\ Len(notes) = 2
    /\ notes[1].time = 0 /\ notes[1].duration = 2 /\ notes[1].velocity = 90
    /\ notes[2].time = 1 /\ notes[2].duration = 2 /\ notes[2].velocity = 50
    /\ Built.pitches = <<Some(notes[1].midi), Some(notes[2].midi)>>

\* C16: under VELOCITY a slot with several candidates holds the pitch of
\* the candidate whose velocity is strictly greater than all others, when
\* there is one.
C16_VelocityLoudestWins ==
    (~IsNone(expectedPitches) /\ pitchConfig.strategy = "VELOCITY")
        => \A i \in SharedSlots :
              LET c == CandidatesOf(i)
              IN \A k \in 1..Len(c) :
                    (\A j \in 1..Len(c) : j # k => c[k].velocity > c[j].velocity)
                        => SlotValue(i) = Some(c[k].midi)

\* the scenario of the specification, one tick being 0.5 s: notes
\* {0, 1, 60, 0.5} and {0.5, 1, 64, 0.9} at resolution 0.5 give [60, 64, 64]
C16_Witness ==
    /\ ~IsNone(expectedPitches)
    /\ pitchConfig = [resolution |-> 1, strategy |-> "VELOCITY"]
    /\ notes = <<[time |-> 0, duration |-> 2, midi |-> 60, velocity |-> 50],
                 [time |-> 1, duration |-> 2, midi |-> 64, velocity |-> 90]>>
    /\ Built.pitches = <<Some(60), Some(64), Some(64)>>

\* the first candidate in input order among those of S with the smallest
\* start time
EarliestOf(c, S) ==
    LET least == MinOf({c[k].time : k \in S})
    IN MinOf({k \in S : c[k].time = least})

\* C17: under FIRST a slot with several candidates holds the pitch of the
\* candidate with the smallest start time, and of the first in input order
\* among several with that start time.
C17_FirstEarliestWins ==
    (~IsNone(expectedPitches) /\ pitchConfig.strategy = "FIRST")
        => \A i \in SharedSlots :
              LET c == CandidatesOf(i)
              IN SlotValue(i) = Some(c[EarliestOf(c, 1..Len(c))].midi)

\* two notes of different pitch starting together: the first one given wins
C17_Witness ==
    /\ ~IsNone(expectedPitches)
    /\ pitchConfig.strategy = "FIRST"
    /\ Len(notes) = 2
    /\ notes[1].time = notes[2].time
    /\ notes[1].midi # notes[2].midi
    /\ SlotValue(0) = Some(notes[1].midi)

\* C18: under VELOCITY, when several candidates share the largest
\* velocity, the one with the smallest start time among them wins (ties
\* resolved as under FIRST), whatever the order the notes are given in.
C18_VelocityTieAsFirst ==
    (~IsNone(expectedPitches) /\ pitchConfig.strategy = "VELOCITY")
        => \A i \in SharedSlots :
              LET c == CandidatesOf(i)
                  top == MaxOf({c[k].velocity : k \in 1..Len(c)})
                  tied == {k \in 1..Len(c) : c[k].velocity = top}
              IN SlotValue(i) = Some(c[EarliestOf(c, tied)].midi)

RECURSIVE SumOfPitches(_, _)
SumOfPitches(c, k) == IF k = 0 THEN 0 ELSE SumOfPitches(c, k - 1) + c[k].midi
\* v = Math.round(p / q) for q > 0, without division
IsRoundOf(v, p, q) == 2 * q * v - q <= 2 * p /\ 2 * p < 2 * q * v + q

\* C19: under FREQUENCY a slot whose several candidates all have velocity
\* 0 holds the arithmetic mean of their pitches, rounded: an integer pitch.
C19_FrequencyZeroWeightMean ==
    (~IsNone(expectedPitches) /\ pitchConfig.strategy = "FREQUENCY")
        => \A i \in SharedSlots :
              LET c == CandidatesOf(i)
              IN (\A k \in 1..Len(c) : c[k].velocity = 0)
                    => /\ ~IsNone(SlotValue(i))
                       /\ Get(SlotValue(i)) \in 0..127
                       /\ IsRoundOf(Get(SlotValue(i)), SumOfPitches(c, Len(c)), Len(c))

-----------------------------------------------------------------------------
(* The timeline builder given any resolution *)

\* no slot width, negative widths, and a valid one
AnyPitchConfigs == [resolution : {-2, -1, 0, 1}, strategy : Strategies]

InitBuildAnyConfig ==
    /\ notes \in NoteLists
    /\ pitchConfig \in AnyPitchConfigs
    /\ expectedPitches = None
    /\ \E cfg \in {DEFAULT_SCORING_CONFIG} : NewTracker(cfg)
    /\ playedAt = <<>>
    /\ now = Clocks(0, 0)
    /\ IdleApp

BuildAnyConfig ==
    /\ Build

NextBuildAnyConfig ==
    \/ BuildAnyConfig

SpecBuildAnyConfig == InitBuildAnyConfig /\ [][NextBuildAnyConfig]_vars

\* C20: a resolution of 0 or less is rejected when the timeline is built:
\* buildExpectedPitchArray never returns a timeline for it.
C20_NonPositiveResolutionRejected ==
    ~IsNone(expectedPitches) => pitchConfig.resolution > 0

-----------------------------------------------------------------------------
(* Claims on the lookup (SpecBuild) *)

\* lookup times from before the earliest start to past the latest end
LookupTimes == (-1)..(MaxTime + 4)
TimelineEnd == Built.start + Len(Built.pitches) * Built.step

\* C21: for an empty note list the builder returns start 0, the configured
\* resolution as step and no slots, and the lookup on that timeline is
\* absent at every time.
C21_EmptyNotesEmptyTimeline ==
    (~IsNone(expectedPitches) /\ notes = <<>>)
        => /\ Built = [start |-> 0, step |-> pitchConfig.resolution, pitches |-> <<>>]
           /\ \A t \in LookupTimes : IsNone(getExpectedMidiAt(t, Built))

\* the timeline built from no notes at two ticks a slot
C21_Witness ==
    /\ ~IsNone(expectedPitches)
    /\ notes = <<>>
    /\ pitchConfig.resolution = 2
    /\ Built.pitches = <<>>

\* C22: the lookup is absent before start and from start + length * step
\* on, and between them it is the slot k with
\* start + k * step <= t < start + (k + 1) * step.
C22_LookupBoundary ==
    ~IsNone(expectedPitches)
        => \A t \in LookupTimes :
              IF t < Built.start \/ t >= TimelineEnd
              THEN IsNone(getExpectedMidiAt(t, Built))
              ELSE \A k \in Slots :
                      (Built.start + k * Built.step <= t
                       /\ t < Built.start + (k + 1) * Built.step)
                          => getExpectedMidiAt(t, Built) = SlotValue(k)

\* a timeline from tick 1 to tick 5 in two slots of two ticks with two
\* pitches: the lookup just before start is absent, at start it is slot 0,
\* at the last tick slot 1, at the end absent
C22_Witness ==
    /\ ~IsNone(expectedPitches)
    /\ Built.start = 1 /\ Built.step = 2 /\ Len(Built.pitches) = 2
    /\ ~IsNone(SlotValue(0)) /\ ~IsNone(SlotValue(1))
    /\ SlotValue(0) # SlotValue(1)
    /\ IsNone(getExpectedMidiAt(0, Built))
    /\ getExpectedMidiAt(1, Built) = SlotValue(0)
    /\ getExpectedMidiAt(4, Built) = SlotValue(1)
    /\ IsNone(getExpectedMidiAt(5, Built))

-----------------------------------------------------------------------------
(* core/pitchArrayBuilder.ts: run-length encoding of a timeline *)

\* a === b on slot values: NaN is not equal to itself
SameValue(a, b) == a = b /\ a # Some(NaN)

Run(value, count) == [value |-> value, count |-> count]

RECURSIVE compressLoop(_, _, _, _, _)
\* the for loop from index i (1-based) on, then the push of the last run
compressLoop(pitches, i, currentValue, count, compressed) ==
    IF i > Len(pitches) THEN Append(compressed, Run(currentValue, count))
    ELSE IF SameValue(pitches[i], currentValue)
    THEN compressLoop(pitches, i + 1, currentValue, count + 1, compressed)
    ELSE compressLoop(pitches, i + 1, pitches[i], 1,
                      Append(compressed, Run(currentValue, count)))

compressPitchArray_FirstRunShort(expected) ==
    [start |-> expected.start,
     step |-> expected.step,
     compressed |-> IF Len(expected.pitches) = 0 THEN <<>>
                    ELSE compressLoop(expected.pitches, 2, expected.pitches[1], 0, <<>>)]
compressPitchArray(expected) ==
    [start |-> expected.start,
     step |-> expected.step,
     compressed |-> IF Len(expected.pitches) = 0 THEN <<>>
                    ELSE compressLoop(expected.pitches, 2, expected.pitches[1], 1, <<>>)]

RECURSIVE expandRuns(_, _)
\* for (const run of compressed.compressed) push run.value run.count times
expandRuns(runs, k) ==
    IF k = 0 THEN <<>>
    ELSE expandRuns(runs, k - 1) \o [i \in 1..runs[k].count |-> runs[k].value]

decompressPitchArray(compressed) ==
    [start |-> compressed.start,
     step |-> compressed.step,
     pitches |-> expandRuns(compressed.compressed, Len(compressed.compressed))]

\* timelines of up to MaxSlots slots: silence, two pitches, and the NaN a
\* FREQUENCY slot can hold
MaxSlots == 4
SlotValues == {None, Some(60), Some(64), Some(NaN)}
Timelines ==
    {[start |-> s, step |-> st, pitches |-> p] :
        s \in {0, 1}, st \in {1, 2},
        p \in UNION {[1..n -> SlotValues] : n \in 0..MaxSlots}}

InitCompress ==
    /\ expectedPitches \in {Some(t) : t \in Timelines}
    /\ notes = <<>>
    /\ pitchConfig = SongConfig
    /\ \E cfg \in {DEFAULT_SCORING_CONFIG} : NewTracker(cfg)
    /\ playedAt = <<>>
    /\ now = Clocks(0, 0)
    /\ IdleApp

\* expectedPitches = decompressPitchArray(compressPitchArray(expectedPitches))
RoundTrip ==
    /\ last.op = "new"
    /\ expectedPitches' =
          Some(decompressPitchArray(compressPitchArray(Get(expectedPitches))))
    /\ last' = [op |-> "roundTrip", input |-> Get(expectedPitches)]
    /\ UNCHANGED <<frames, config, playedAt, now, notes, pitchConfig, appVars>>

NextCompress ==
    \/ RoundTrip

SpecCompress == InitCompress /\ [][NextCompress]_vars

\* C23: decompressPitchArray(compressPitchArray(timeline)) has the start,
\* the step and, slot by slot, the pitches of the timeline, for every
\* timeline: empty, with runs of absent slots, with runs of one pitch.
C23_RleRoundTrip ==
    last.op = "roundTrip"
        => /\ Get(expectedPitches).start = last.input.start
           /\ Get(expectedPitches).step = last.input.step
           /\ Len(Get(expectedPitches).pitches) = Len(last.input.pitches)
           /\ \A i \in 1..Len(last.input.pitches) :
                 Get(expectedPitches).pitches[i] = last.input.pitches[i]

\* two absent slots then two slots of one pitch, compressed into two runs
\* of two and expanded again
C23_Witness ==
    /\ last.op = "roundTrip"
    /\ last.input.pitches = <<None, None, Some(60), Some(60)>>
    /\ compressPitchArray(last.input).compressed = <<Run(None, 2), Run(Some(60), 2)>>
    /\ Get(expectedPitches).pitches = <<None, None, Some(60), Some(60)>>

-----------------------------------------------------------------------------
(* ScoreTracker.export and ScoreTracker.import on serialized data *)

\* what this.frames holds after this.frames = data.frames on data without
\* the field
Undefined == <<[undefined |-> TRUE]>>

\* export() of a tracker with history fs and configuration cfg
export(fs, cfg) ==
    [frames |-> Some(fs), stats |-> Some(getStats(fs)), config |-> Some(cfg)]

\* data handed to import: saved bundles with and without a configuration,
\* exports of other trackers, and bundles without frames
SerializedData ==
    {[frames |-> Some(b.frames), stats |-> None, config |-> b.config] :
        b \in ImportBundles}
    \cup {export(fs, cfg) :
            fs \in {<<>>, <<ImportFrame(0, "PERFECT"), ImportFrame(1, "MISS")>>,
                    <<ImportFrame(2, "ACCEPTABLE")>>},
            cfg \in Configs}
    \cup {[frames |-> None, stats |-> None, config |-> c] :
            c \in {None, Some([perfectThreshold |-> 3]),
                   Some([acceptableThreshold |-> 8])}}

\* import(data): no validation, no throw; the call's data and the state before
\* it are recorded
ImportSerialized_AlwaysMerges(data) ==
    /\ frames' = IF IsNone(data.frames) THEN Undefined ELSE Get(data.frames)
    /\ config' = MergeConfig(IF IsNone(data.config) THEN <<>>
                             ELSE Get(data.config))
    /\ last' = [op |-> "import", data |-> data, signal |-> None,
                frames |-> frames, config |-> config]
ImportSerialized(data) ==
    /\ frames' = IF IsNone(data.frames) THEN Undefined ELSE Get(data.frames)
    /\ config' = IF IsNone(data.config) THEN config
                 ELSE MergeConfig(Get(data.config))
    /\ last' = [op |-> "import", data |-> data, signal |-> None,
                frames |-> frames, config |-> config]

InitImport ==
    /\ \E cfg \in Configs : NewTracker(cfg)
    /\ playedAt = <<>>
    /\ now = Clocks(0, 0)
    /\ IdleTimeline
    /\ IdleApp

\* addFrame on a tracker whose frames is an array (push on undefined throws
\* and changes nothing)
ImportAddFrame ==
    /\ frames # Undefined
    /\ Len(frames) < MaxFrames
    /\ \E d \in {None, Detection(Some(603), 90, 0), Detection(Some(620), 90, 1)} :
          AddFrame(d, 1)
    /\ UNCHANGED <<playedAt, now, timelineVars, appVars>>

ImportCall ==
    /\ \E data \in SerializedData : ImportSerialized(data)
    /\ UNCHANGED <<playedAt, now, timelineVars, appVars>>

NextImport ==
    \/ ImportAddFrame
    \/ ImportCall

SpecImport == InitImport /\ [][NextImport]_vars

\* C24: an import of data without frames signals MalformedScoreData and
\* leaves the tracker's history and configuration as they were before the
\* call.
C24_MalformedImportRejected ==
    (last.op = "import" /\ IsNone(last.data.frames))
        => /\ last.signal = Some("MalformedScoreData")
           /\ frames = last.frames
           /\ config = last.config

\* C25: after import(data) the history is data.frames and the configuration
\* is a function of data alone (the defaults overlaid with data.config, the
\* defaults when data has none); after importing an export of tracker A the
\* statistics are A's and the thresholds are A's.
C25_ImportReplacesWholesale ==
    (last.op = "import" /\ ~IsNone(last.data.frames))
        => /\ frames = Get(last.data.frames)
           /\ config = MergeConfig(IF IsNone(last.data.config) THEN <<>>
                                   ELSE Get(last.data.config))
           /\ ~IsNone(last.data.stats)
                 => /\ getStats(frames) = Get(last.data.stats)
                    /\ config = Get(last.data.config)

\* C25 as the code has it: after import(data) the history is data.frames;
\* the configuration is the defaults overlaid with data.config when data
\* carries one and the tracker's previous configuration when it does not;
\* after importing an export of tracker A, which always carries A's
\* configuration, the statistics are A's and the thresholds are A's.
C25_ImportKeepsConfigWithoutOne ==
    (last.op = "import" /\ ~IsNone(last.data.frames))
        => /\ frames = Get(last.data.frames)
           /\ ~IsNone(last.data.config)
                 => config = MergeConfig(Get(last.data.config))
           /\ IsNone(last.data.config) => config = last.config
           /\ ~IsNone(last.data.stats)
                 => /\ getStats(frames) = Get(last.data.stats)
                    /\ config = Get(last.data.config)

\* frames without a configuration imported into a tracker with a history
\* and a perfect threshold of 0.3: the history is replaced, the threshold
\* stays
C25_Witness ==
    /\ last.op = "import"
    /\ ~IsNone(last.data.frames)
    /\ IsNone(last.data.config)
    /\ last.frames # <<>>
    /\ last.frames # Undefined
    /\ frames = Get(last.data.frames)
    /\ frames # last.frames
    /\ last.config.perfectThreshold = 3
    /\ config.perfectThreshold = 3

-----------------------------------------------------------------------------
(* Claims on input order and on the weighted mean (SpecBuild) *)

Orders(n) ==
    {f \in [1..n -> 1..n] : \A i, j \in 1..n : i # j => f[i] # f[j]}
Permuted(ns, f) == [i \in 1..Len(ns) |-> ns[f[i]]]
DistinctTimes ==
    \A i, j \in 1..Len(notes) : i # j => notes[i].time # notes[j].time
DistinctVelocities ==
    \A i, j \in 1..Len(notes) : i # j => notes[i].velocity # notes[j].velocity

\* C26: when the notes have pairwise distinct start times and the strategy
\* is FIRST, or pairwise distinct velocities and the strategy is VELOCITY,
\* the timeline built from every permutation of the note list is the
\* timeline built from the list.
C26_OrderIndependentWithoutTies ==
    (/\ ~IsNone(expectedPitches)
     /\ \/ pitchConfig.strategy = "FIRST" /\ DistinctTimes
        \/ pitchConfig.strategy = "VELOCITY" /\ DistinctVelocities)
        => \A f \in Orders(Len(notes)) :
              /\ ~buildThrows(Permuted(notes, f), pitchConfig)
              /\ buildExpectedPitchArray(Permuted(notes, f), pitchConfig) = Built

\* two notes of different pitch, start and velocity share a slot, the later
\* and louder one listed first; FIRST picks the earlier, VELOCITY the louder
C26_Witness ==
    /\ ~IsNone(expectedPitches)
    /\ pitchConfig.strategy \in {"FIRST", "VELOCITY"}
    /\ Len(notes) = 2
    /\ notes[1].time > notes[2].time
    /\ notes[1].velocity > notes[2].velocity
    /\ notes[1].midi # notes[2].midi
    /\ SharedSlots # {}
    /\ \A i \in SharedSlots :
          SlotValue(i) = Some(IF pitchConfig.strategy = "FIRST"
                              THEN notes[2].midi ELSE notes[1].midi)

RECURSIVE TotalVelocity(_, _)
TotalVelocity(c, k) == IF k = 0 THEN 0 ELSE TotalVelocity(c, k - 1) + c[k].velocity
RECURSIVE WeightedPitches(_, _)
WeightedPitches(c, k) ==
    IF k = 0 THEN 0 ELSE WeightedPitches(c, k - 1) + c[k].midi * c[k].velocity

\* C28: under FREQUENCY a slot with two or more candidates whose velocities
\* sum to more than 0 holds sum(pitch * velocity) / sum(velocity) rounded
\* to the nearest integer.
C28_FrequencyWeightedMean ==
    (~IsNone(expectedPitches) /\ pitchConfig.strategy = "FREQUENCY")
        => \A i \in SharedSlots :
              LET c == CandidatesOf(i)
              IN TotalVelocity(c, Len(c)) > 0
                    => /\ ~IsNone(SlotValue(i))
                       /\ IsRoundOf(Get(SlotValue(i)), WeightedPitches(c, Len(c)),
                                    TotalVelocity(c, Len(c)))

\* pitch 60 at velocity 0.5 and pitch 64 at velocity 0.9 share a slot:
\* 876 / 1.4 = 62.57 rounds to 63, not to the plain mean 62
C28_Witness ==
    /\ ~IsNone(expectedPitches)
    /\ pitchConfig.strategy = "FREQUENCY"
    /\ \E i \in SharedSlots :
          /\ {<<c.midi, c.velocity>> : c \in {CandidatesOf(i)[k] : k \in 1..2}}
                = {<<60, 50>>, <<64, 90>>}
          /\ Len(CandidatesOf(i)) = 2
          /\ SlotValue(i) = Some(63)

-----------------------------------------------------------------------------
(* getExpectedMidiRange over a window of a timeline *)

\* timelines of up to MaxSlots slots, each slot silent or holding a pitch
\* that names its position
RangeTimelines ==
    {[start |-> s, step |-> st,
      pitches |-> [k \in 1..Len(p) |-> IF p[k] THEN Some(59 + k) ELSE None]] :
        s \in {0, 1}, st \in {1, 2},
        p \in UNION {[1..n -> BOOLEAN] : n \in 0..MaxSlots}}
\* window bounds from before the earliest start to past the latest end
RangeTimes == (-1)..(2 * MaxSlots + 2)

InitRange ==
    /\ expectedPitches \in {Some(t) : t \in RangeTimelines}
    /\ notes = <<>>
    /\ pitchConfig = SongConfig
    /\ \E cfg \in {DEFAULT_SCORING_CONFIG} : NewTracker(cfg)
    /\ playedAt = <<>>
    /\ now = Clocks(0, 0)
    /\ IdleApp

\* getExpectedMidiRange(from, to, expectedPitches)
Range ==
    /\ last.op = "new"
    /\ \E from \in RangeTimes, to \in RangeTimes :
          last' = [op |-> "range", from |-> from, to |-> to,
                   result |-> getExpectedMidiRange(from, to, Get(expectedPitches))]
    /\ UNCHANGED <<frames, config, playedAt, now, timelineVars, appVars>>

NextRange ==
    \/ Range

SpecRange == InitRange /\ [][NextRange]_vars

\* n = floor(p / q) for q > 0, without division
IsFloorOf(n, p, q) == n * q <= p /\ p < (n + 1) * q
SlotIndices == (-(2 * MaxSlots + 3))..(2 * MaxSlots + 3)
\* pitches[lo .. hi) with 0-based bounds, empty when hi <= lo
Slice(lo, hi) == [k \in 1..(hi - lo) |-> Built.pitches[lo + k]]
\* the result is the slice from max(0, floor((from - start) / step)) to
\* min(length, ceil((to - start) / step)), which reads only slots of the
\* timeline
RangeIsSlice ==
    \A fl \in SlotIndices :
        IsFloorOf(fl, last.from - Built.start, Built.step)
            => \A ce \in SlotIndices :
                  IsCeilOf(ce, last.to - Built.start, Built.step)
                      => LET lo == MaxOf({0, fl})
                             hi == MinOf({Len(Built.pitches), ce})
                         IN /\ last.result = Slice(lo, hi)
                            /\ hi > lo => (0 <= lo /\ hi <= Len(Built.pitches))
                            /\ Len(last.result) <= Len(Built.pitches)
RangeEmptyOutside ==
    (last.to <= Built.start \/ last.from >= TimelineEnd) => last.result = <<>>
\* from and to both strictly inside slot k
InsideSlot(k) ==
    /\ Built.start + k * Built.step < last.to
    /\ last.to <= last.from
    /\ last.from < Built.start + (k + 1) * Built.step

\* C27 as the code has it: the range is the clamped slice, it reads only
\* slots of the timeline, and it is empty for a window entirely before the
\* start or after the end; for to <= from it is empty unless from and to
\* both lie strictly inside one slot of the timeline, and then it is that
\* one slot.
C27_RangeIsClampedSlice ==
    last.op = "range"
        => /\ RangeIsSlice
           /\ RangeEmptyOutside
           /\ last.to <= last.from
                 => IF \E k \in Slots : InsideSlot(k)
                    THEN \A k \in Slots :
                            InsideSlot(k) => last.result = <<SlotValue(k)>>
                    ELSE last.result = <<>>

\* C27 as stated: the range is the clamped slice, in bounds, empty for a
\* window entirely before the start or after the end, and empty whenever
\* to <= from.
C27_RangeEmptyWhenNotForward ==
    last.op = "range"
        => /\ RangeIsSlice
           /\ RangeEmptyOutside
           /\ last.to <= last.from => last.result = <<>>

\* a window from the middle of the second two-tick slot to past the end of
\* a four-slot timeline: the second, third and fourth slots, in order
C27_Witness ==
    /\ last.op = "range"
    /\ Built = [start |-> 1, step |-> 2,
                pitches |-> <<Some(60), Some(61), None, Some(63)>>]
    /\ last.from = 4
    /\ last.to = 10
    /\ last.result = <<Some(61), None, Some(63)>>

-----------------------------------------------------------------------------
(* Claims on stop (SpecApp) and on the time of a frame (SpecTracker) *)

\* C29: right after KaraokeApp.stop(), whatever the state it was called in,
\* the transport position and state.currentTime are 0, isPlaying and
\* isPaused are false (in the state and in the player), the pitch detector
\* is not running and has no frame requested, the history is empty and
\* state.score has zero counts and score 0.
C29_StopReturnsToBeginning ==
    app.call = "stop"
        => /\ now.play = 0
           /\ app.currentTime = 0
           /\ ~app.isPlaying
           /\ ~app.isPaused
           /\ ~player.isPaused
           /\ ~playerIsPlaying(player)
           /\ ~detector.isRunning
           /\ detector.frame = "none"
           /\ frames = <<>>
           /\ app.score = ZeroStats

\* stop() on a loaded player whose detector has run, with a frame in the
\* history and play() still suspended at an await
C29_Witness ==
    /\ app.call = "stop"
    /\ player.isInitialized
    /\ player.duration > 0
    /\ detector.callback
    /\ last.op = "reset"
    /\ last.dropped >= 1
    /\ frames = <<>>
    /\ now.play = 0

\* C30: the frame stored by addFrame(detected, expected, currentTime) has
\* time = currentTime, the time its expected pitch was looked up at,
\* whether a detection is present or not and whatever its timestamp.
C30_FrameTimeIsPlaybackTime ==
    last.op = "addFrame"
        => /\ LastFrame.time = last.time
           /\ LastFrame.expected = getExpectedMidiAt(last.time, Get(expectedPitches))

-----------------------------------------------------------------------------
(* Claims on suspended play() calls and on the end of the song (SpecApp) *)

\* C31: when stop() was the last call made while a play() was suspended at
\* an await, the step that completes that play() leaves the app not
\* playing and the pitch detector not running.
C31_StopDuringPlayHonoured ==
    [][(app.call = "stop" /\ app.pending # <<>> /\ app'.pending = <<>>)
          => (~app'.isPlaying /\ ~detector'.isRunning)]_vars

\* C32: the step in which the player, having reached the end of the song,
\* stops itself leaves state.isPlaying false and the pitch detector not
\* running.
C32_EndOfSongLeavesPlaying ==
    [][(playerIsPlaying(player) /\ player'.transport = "stopped"
        /\ app'.call # "stop")
          => (~app'.isPlaying /\ ~detector'.isRunning)]_vars

-----------------------------------------------------------------------------
(* KaraokeApp with the awaits of play() settling as microtasks: Tone's
   context and the detector's AudioContext are running, so a suspended
   play() is resumed before any other call, animation frame or clock tick,
   and is always resumed.  The pitch callback is left out: the frames it
   scores have no part in what seek() and play() do to the playing status *)

Settled == app.pending = <<>>

ResumeInitialize == Settled /\ AppInitialize
ResumeLoadMidi == Settled /\ AppLoadMidi
ResumePlay == Settled /\ AppPlay
ResumePause == Settled /\ AppPause
ResumeStop == Settled /\ AppStop
ResumeSeek == Settled /\ AppSeek
ResumeSetMicrophoneEnabled == Settled /\ AppSetMicrophoneEnabled
ResumeTimeUpdate == Settled /\ AppTimeUpdate
ResumeAdvance == Settled /\ AppAdvance

NextResume ==
    \/ ResumeInitialize
    \/ ResumeLoadMidi
    \/ ResumePlay
    \/ AppPlayAfterPlayer
    \/ AppPlayAfterResume
    \/ ResumePause
    \/ ResumeStop
    \/ ResumeSeek
    \/ ResumeSetMicrophoneEnabled
    \/ ResumeTimeUpdate
    \/ ResumeAdvance

SpecResume ==
    /\ InitApp
    /\ [][NextResume]_vars
    /\ WF_vars(AppPlayAfterPlayer)
    /\ WF_vars(AppPlayAfterResume)

\* seek() found the app playing, has returned, and the play() it called is
\* suspended
SoughtWhilePlaying == app.call = "seek" /\ app.pending # <<>>
PlayingAgain ==
    /\ app.pending = <<>>
    /\ app.isPlaying
    /\ ~app.isPaused
    /\ playerIsPlaying(player)
    /\ app.microphoneEnabled => detector.isRunning

-----------------------------------------------------------------------------
(* Claims on the statistics of a history (SpecTracker) *)

\* C34: for every history reached by addFrame, resetFrom, reset and import,
\* getStats() has matchedTime >= 0, totalTime >= 0 and
\* matchedTime <= totalTime.
C34_TimeStatsOrdered ==
    /\ matchedTimeOf(frames).num >= 0
    /\ totalTimeOf(frames).num >= 0
    /\ matchedTimeOf(frames).num <= totalTimeOf(frames).num

-----------------------------------------------------------------------------
(* A tracker with a history whose statistics are read *)

\* getStats(): reads this.frames and returns the statistics
TrackerGetStats ==
    /\ last' = [op |-> "getStats", detected |-> None, time |-> 0, dropped |-> 0,
                stats |-> getStats(frames)]
    /\ UNCHANGED <<frames, config, playedAt, now, timelineVars, appVars>>

NextStats ==
    \/ TrackerAddFrame
    \/ TrackerResetFrom
    \/ TrackerReset
    \/ TrackerImport
    \/ TrackerGetStats

SpecStats == InitTracker /\ [][NextStats]_vars

Counters == {"perfectFrames", "acceptableFrames", "missFrames", "noDataFrames"}
CountersAddUp(stats, fs) ==
    /\ stats.totalFrames = Len(fs)
    /\ stats.totalFrames = stats.perfectFrames + stats.acceptableFrames
                              + stats.missFrames + stats.noDataFrames

\* C35: in every state the four counters of getStats() add up to
\* totalFrames, which is the length of the history; an addFrame call that
\* follows a getStats() keeps the history it found and appends one frame,
\* and the statistics after it have totalFrames and exactly one of the four
\* counters one above the statistics that were read; getStats() returns
\* those statistics and leaves the history as it was.
C35_FrameAccounting ==
    /\ [](CountersAddUp(getStats(frames), frames))
    /\ [](last.op = "getStats" => CountersAddUp(last.stats, frames))
    /\ [][(last.op = "getStats" /\ last'.op = "addFrame")
            => LET before == last.stats
                   after == getStats(frames')
               IN  /\ Len(frames') = Len(frames) + 1
                   /\ SubSeq(frames', 1, Len(frames)) = frames
                   /\ after.totalFrames = before.totalFrames + 1
                   /\ \E c \in Counters :
                         /\ after[c] = before[c] + 1
                         /\ \A d \in Counters \ {c} : after[d] = before[d]]_vars
    /\ [][last'.op = "getStats" => frames' = frames]_vars

\* the statistics read after a frame that could not be judged was added to
\* a history of one perfect frame
C35_Witness ==
    /\ last.op = "getStats"
    /\ Len(frames) = 2
    /\ frames[1].match = "PERFECT"
    /\ frames[2].match = "NO_DATA"
    /\ last.stats.totalFrames = 2
    /\ last.stats.perfectFrames = 1
    /\ last.stats.noDataFrames = 1

-----------------------------------------------------------------------------
(* Claims on loading and on the microphone (SpecApp) *)

\* C36: a loadMidi that fails because the file has no notes leaves the
\* notes, the timeline and the player as they were; and in every state a
\* timeline the app holds is the one built from the notes it holds.
C36_FailedLoadKeepsSong ==
    /\ [][(AppLoadMidi /\ app'.call = "loadMidi:failed" /\ player.isInitialized)
            => /\ notes' = notes
               /\ expectedPitches' = expectedPitches
               /\ player' = player]_vars
    /\ [](~IsNone(expectedPitches)
            => Get(expectedPitches) = buildExpectedPitchArray(notes, pitchConfig))

-----------------------------------------------------------------------------
(* audio/pitchDetector.ts: the detection loop of an initialized
   MicrophonePitchDetector, one animation frame at a time.  pending is the
   set of requested animation frames that have neither fired nor been
   cancelled, id is animationFrameId, next the id the browser gives to the
   next request. *)

MaxRequests == 7

NewLoop ==
    [isRunning |-> FALSE, callback |-> FALSE, id |-> None, pending |-> {},
     next |-> 1]

\* this.animationFrameId = requestAnimationFrame(this.detectPitch)
requestAnimationFrame(d) ==
    [d EXCEPT !.pending = @ \cup {d.next}, !.id = Some(d.next), !.next = @ + 1]

\* stop(): cancelAnimationFrame of a frame that has fired does nothing
stop(d) ==
    [d EXCEPT !.isRunning = FALSE,
              !.pending = IF IsNone(d.id) THEN @ ELSE @ \ {Get(d.id)},
              !.id = None]

\* start(callback): lastDetectionTime is now, so the detectPitch() it calls
\* is throttled and only requests the next frame
start(d) ==
    IF d.isRunning THEN d
    ELSE requestAnimationFrame([d EXCEPT !.isRunning = TRUE, !.callback = TRUE])

\* updateConfig(config)
updateConfig(d) ==
    LET wasRunning == d.isRunning
        d1 == IF wasRunning THEN stop(d) ELSE d
    IN IF wasRunning /\ d.callback THEN start(d1) ELSE d1

\* what the pitch callback does with the detector
CallbackCalls == {"nothing", "stop", "stop,start", "updateConfig"}
onPitchDetected(d, calls) ==
    CASE calls = "stop" -> stop(d)
      [] calls = "stop,start" -> start(stop(d))
      [] calls = "updateConfig" -> updateConfig(d)
      [] OTHER -> d

\* detectPitch() run by animation frame k: due says that frameStep has
\* elapsed since the last detection
detectPitch(d, k, due, calls) ==
    LET fired == [d EXCEPT !.pending = @ \ {k}]
    IN IF ~fired.isRunning THEN fired
       ELSE requestAnimationFrame(IF due /\ fired.callback
                                  THEN onPitchDetected(fired, calls) ELSE fired)

InitLoop ==
    /\ detector = NewLoop
    /\ app = None
    /\ player = None
    /\ \E cfg \in {DEFAULT_SCORING_CONFIG} : NewTracker(cfg)
    /\ playedAt = <<>>
    /\ now = Clocks(0, 0)
    /\ IdleTimeline

LoopStart ==
    /\ detector.next <= MaxRequests
    /\ detector' = start(detector)
    /\ last' = [op |-> "start", invoked |-> FALSE, wasRunning |-> detector.isRunning]
    /\ UNCHANGED <<frames, config, playedAt, now, timelineVars, app, player>>

LoopStop ==
    /\ detector' = stop(detector)
    /\ last' = [op |-> "stop", invoked |-> FALSE, wasRunning |-> detector.isRunning]
    /\ UNCHANGED <<frames, config, playedAt, now, timelineVars, app, player>>

LoopUpdateConfig ==
    /\ detector.next <= MaxRequests
    /\ detector' = updateConfig(detector)
    /\ last' = [op |-> "updateConfig", invoked |-> FALSE,
                wasRunning |-> detector.isRunning]
    /\ UNCHANGED <<frames, config, playedAt, now, timelineVars, app, player>>

LoopFrame ==
    /\ detector.next + 1 <= MaxRequests
    /\ \E k \in detector.pending, due \in BOOLEAN, calls \in CallbackCalls :
          /\ detector' = detectPitch(detector, k, due, calls)
          /\ last' = [op |-> "frame",
                      invoked |-> detector.isRunning /\ due /\ detector.callback,
                      wasRunning |-> detector.isRunning]
    /\ UNCHANGED <<frames, config, playedAt, now, timelineVars, app, player>>

NextLoop ==
    \/ LoopStart
    \/ LoopStop
    \/ LoopUpdateConfig
    \/ LoopFrame

SpecLoop == InitLoop /\ [][NextLoop]_vars

\* C37: while the detector is running at most one requested animation
\* frame is outstanding (each would run a detection when it fires), and a
\* frame that fires on a detector stopped by stop() does not invoke the
\* pitch callback.
C37_SingleDetectionLoop ==
    /\ detector.isRunning => Cardinality(detector.pending) <= 1
    /\ (last.op = "frame" /\ ~last.wasRunning) => ~last.invoked

-----------------------------------------------------------------------------
(* Claim on the microphone during playback (SpecApp) *)

\* C38: whenever state.isPlaying and state.microphoneEnabled are true and
\* no play() is suspended, the pitch detector is running.
C38_MicrophoneOnMeansDetecting ==
    (app.isPlaying /\ app.microphoneEnabled /\ app.pending = <<>>)
        => detector.isRunning

=============================================================================
